---- MODULE Spec2Model ----
(***************************************************************************)
(* Model of src/vehicle-localization.py: the Ackermann steering simulator. *)
(*                                                                         *)
(* Units.  Speeds are integers in km/h.  Steering angles (delta_k, df0)    *)
(* are in tenths of a degree, so ANGLE_STEP = 1.2 degrees is 12.  Lengths  *)
(* (lf, lb, x, y) are in metres, dt in seconds.  Headings (psi, beta) are  *)
(* in units of 2*pi/TwoPi (15 degrees).  x_pos and y_pos are in half       *)
(* pixels.                                                                 *)
(*                                                                         *)
(* Arithmetic.  The program computes psi, x, y with Python floats.  The    *)
(* heading is carried here in a miniature binary floating-point format     *)
(* (Prec significand bits, round to nearest, ties to even) so that the     *)
(* rounding inside Python's float `%` is part of the model; trigonometric  *)
(* functions are fixed-point tables.  x and y are exact integers.          *)
(* The trail list past_positions and the pygame window are not modelled.   *)
(*                                                                         *)
(* keys is main's local of that name.  Its value is dead once             *)
(* handle_movement has returned (get_pressed overwrites it before the     *)
(* next read), so the event poll that follows resets it to the empty set. *)
(* moving is handle_movement's local of that name, kept after the call.   *)
(***************************************************************************)
EXTENDS Integers, Sequences, FiniteSets, TLC

VARIABLES pc, run, err, ticks, args, keys, moving,
          vel, vel_k_1, lf, lb, x_k, x_k_1, y_k, y_k_1,
          psi, psi_k_1, delta_k, delta_k_1, delta_t, beta_k_1,
          x_pos, y_pos

vars == <<pc, run, err, ticks, args, keys, moving,
          vel, vel_k_1, lf, lb, x_k, x_k_1, y_k, y_k_1,
          psi, psi_k_1, delta_k, delta_k_1, delta_t, beta_k_1,
          x_pos, y_pos>>

carvars == <<vel, vel_k_1, lf, lb, x_k, x_k_1, y_k, y_k_1,
             psi, psi_k_1, delta_k, delta_k_1, delta_t, beta_k_1,
             x_pos, y_pos>>

\* ------------------------------------------------------------ bounds

\* Number of iterations of main's `while run` loop that are explored.
MaxTicks == 3

\* ------------------------------------------------- program constants

WIDTH == 600
HEIGHT == 600
UPPER_SPEED_LIMIT == 300
LOWER_SPEED_LIMIT == 0
ANGLE_STEP == 12
SPEED_STEP == 10
METERS_PER_PIXEL == 2

\* 2 * pi in heading units (line 189).
TwoPi == 24

\* Significand bits of the miniature float format standing for binary64.
Prec == 4

KeyNames == {"K_UP", "K_DOWN", "K_LEFT", "K_RIGHT", "K_f", "K_s"}

\* ---------------------------------------------------- command line

\* The values of --vehicle_speed, --psi0 (after deg2rad, in heading units),
\* --df0, --dt and (--lf, --lb) that are explored.
InitSpeeds == {10, 295, 300}
InitHeadings == {-2, 0, 30}
InitSteers == {0}
InitDts == {0, 10}
InitGeometry == {<<1, 1>>, <<1, -1>>}

\* ------------------------------------------------------- arithmetic

Abs(n) == IF n < 0 THEN -n ELSE n

Sign(n) == IF n < 0 THEN -1 ELSE IF n > 0 THEN 1 ELSE 0

\* n / d rounded to the nearest integer (d > 0), symmetric about 0.
RoundDiv(n, d) == Sign(n) * ((2 * Abs(n) + d) \div (2 * d))

RECURSIVE Pow2(_)
Pow2(n) == IF n = 0 THEN 1 ELSE 2 * Pow2(n - 1)

\* Spacing of the representable numbers around magnitude a >= 0.
RECURSIVE Ulp(_)
Ulp(a) == IF a < Pow2(Prec) THEN 1 ELSE 2 * Ulp(a \div 2)

\* Rounding of the exact value z to the nearest representable number,
\* ties to the even significand: the result of every float operation.
Fl(z) ==
    LET a == Abs(z)
        u == Ulp(a)
        q == a \div u
        r == a % u
        m == IF 2 * r < u THEN q
             ELSE IF 2 * r > u THEN q + 1
             ELSE IF q % 2 = 0 THEN q ELSE q + 1
    IN Sign(z) * m * u

\* C fmod: exact, with the sign of the dividend.
Fmod(v, w) == Sign(v) * (Abs(v) % w)

\* Python float v % w for w > 0: fmod, then w is added to a negative
\* remainder, and that sum is rounded like any float addition.
PyMod(v, w) ==
    LET m == Fmod(v, w)
    IN IF m # 0 /\ m < 0 THEN Fl(m + w) ELSE m

\* tan(deg2rad(d)) * 1000 for d in tenths of a degree.
TanQ(d) == RoundDiv(7 * d, 4)

CosTab == <<100, 97, 87, 71, 50, 26, 0, -26, -50, -71, -87, -97,
            -100, -97, -87, -71, -50, -26, 0, 26, 50, 71, 87, 97>>

\* cos(a) * 100 and sin(a) * 100 for a in heading units.
CosQ(a) == CosTab[(a % TwoPi) + 1]

SinQ(a) == CosQ(a - (TwoPi \div 4))

\* atan2(y, x) in heading units for x >= 0, y scaled by 1000.
Atan2Q(y, x) ==
    IF x = 0 THEN Sign(y) * (TwoPi \div 4)
    ELSE RoundDiv(y, x * 262)

\* ------------------------------------------------------------ Car

\* v/3.6 * delta_t * c, with c = 100 * cos or 100 * sin, in metres.
Dist(v, dt, c) == RoundDiv(v * dt * c, 360)

\* Turn with the tangent of ANGLE_STEP in place of that of d.
Turn_noTan(v, dt, beta, d, wheelbase) ==
    RoundDiv(v * dt * CosQ(beta) * 21, 94248 * wheelbase)

\* v/3.6 * delta_t * cos(beta) * tan(deg2rad(d)) / (lf + lb), in heading
\* units; wheelbase # 0.
Turn(v, dt, beta, d, wheelbase) ==
    RoundDiv(v * dt * CosQ(beta) * TanQ(d), 94248 * wheelbase)

PosX(x) == 2 * (WIDTH \div 2) + (2 * x) \div METERS_PER_PIXEL

PosY(y) == 2 * (HEIGHT \div 2) + (2 * y * (-1)) \div METERS_PER_PIXEL

\* Move with the sign of every turn command flipped.
Move_swapped(c, arg) ==
    LET s0 == [c EXCEPT !.vel_k_1 = c.vel]
    IN CASE arg = "up" -> [s0 EXCEPT !.delta_k = 0]
         [] arg = "up_left" -> [s0 EXCEPT !.delta_k = ANGLE_STEP]
         [] arg = "up_right" -> [s0 EXCEPT !.delta_k = ANGLE_STEP * (-1)]
         [] arg = "down" ->
                [s0 EXCEPT !.delta_k = 0, !.vel_k_1 = s0.vel_k_1 * (-1)]
         [] arg = "down_left" ->
                [s0 EXCEPT !.delta_k = ANGLE_STEP * (-1),
                           !.vel_k_1 = s0.vel_k_1 * (-1)]
         [] arg = "down_right" ->
                [s0 EXCEPT !.delta_k = ANGLE_STEP,
                           !.vel_k_1 = s0.vel_k_1 * (-1)]
         [] arg = "speed_up" -> [s0 EXCEPT !.vel = s0.vel + SPEED_STEP]
         [] arg = "speed_down" -> [s0 EXCEPT !.vel = s0.vel - SPEED_STEP]
         [] arg = "not_moving" -> [s0 EXCEPT !.vel_k_1 = 0]

\* Car.move called with the one keyword argument arg set to True, as every
\* call in handle_movement does, so exactly one of its `if` bodies runs
\* after the leading assignment.  c holds the fields vel, vel_k_1 and
\* delta_k, the only ones move touches.
Move(c, arg) ==
    LET s0 == [c EXCEPT !.vel_k_1 = c.vel]
    IN CASE arg = "up" -> [s0 EXCEPT !.delta_k = 0]
         [] arg = "up_left" -> [s0 EXCEPT !.delta_k = ANGLE_STEP * (-1)]
         [] arg = "up_right" -> [s0 EXCEPT !.delta_k = ANGLE_STEP]
         [] arg = "down" ->
                [s0 EXCEPT !.delta_k = 0, !.vel_k_1 = s0.vel_k_1 * (-1)]
         [] arg = "down_left" ->
                [s0 EXCEPT !.delta_k = ANGLE_STEP,
                           !.vel_k_1 = s0.vel_k_1 * (-1)]
         [] arg = "down_right" ->
                [s0 EXCEPT !.delta_k = ANGLE_STEP * (-1),
                           !.vel_k_1 = s0.vel_k_1 * (-1)]
         [] arg = "speed_up" -> [s0 EXCEPT !.vel = s0.vel + SPEED_STEP]
         [] arg = "speed_down" -> [s0 EXCEPT !.vel = s0.vel - SPEED_STEP]
         [] arg = "not_moving" -> [s0 EXCEPT !.vel_k_1 = 0]

\* ------------------------------------------------ handle_movement

Up(k) == "K_UP" \in k
Down(k) == "K_DOWN" \in k
Left(k) == "K_LEFT" \in k
Right(k) == "K_RIGHT" \in k

\* The local `moving` of handle_movement.
Moving(k) == Up(k) \/ Down(k) \/ Left(k) \/ Right(k)

\* The `if` statements of handle_movement, in order; each takes the car
\* fields as the statements before it left them.
IfUp(c, k) ==
    IF Up(k) /\ ~(Down(k) \/ Left(k) \/ Right(k)) THEN Move(c, "up") ELSE c

IfUpLeft(c, k) ==
    IF Up(k) /\ Left(k) /\ ~(Down(k) \/ Right(k))
    THEN Move(c, "up_left") ELSE c

IfUpRight(c, k) ==
    IF Up(k) /\ Right(k) /\ ~(Down(k) \/ Left(k))
    THEN Move(c, "up_right") ELSE c

IfDown(c, k) ==
    IF Down(k) /\ ~(Up(k) \/ Left(k) \/ Right(k))
    THEN Move(c, "down") ELSE c

IfDownLeft(c, k) ==
    IF Down(k) /\ Left(k) /\ ~(Up(k) \/ Right(k))
    THEN Move(c, "down_left") ELSE c

IfDownRight(c, k) ==
    IF Down(k) /\ Right(k) /\ ~(Up(k) \/ Left(k))
    THEN Move(c, "down_right") ELSE c

\* IfSpeedUp without the `and moving` conjunct.
IfSpeedUp_noGuard(c, k) ==
    IF "K_f" \in k /\ c.vel < UPPER_SPEED_LIMIT
    THEN Move(c, "speed_up") ELSE c

IfSpeedUp(c, k) ==
    IF "K_f" \in k /\ c.vel < UPPER_SPEED_LIMIT /\ Moving(k)
    THEN Move(c, "speed_up") ELSE c

IfSpeedDown(c, k) ==
    IF "K_s" \in k /\ c.vel > LOWER_SPEED_LIMIT /\ Moving(k)
    THEN Move(c, "speed_down") ELSE c

IfNotMoving(c, k) ==
    IF ~Moving(k) THEN Move(c, "not_moving") ELSE c

\* handle_movement(car, keys) on the fields c of car, k the held keys.
HandleMovement(c, k) ==
    IfNotMoving(IfSpeedDown(IfSpeedUp(IfDownRight(IfDownLeft(IfDown(
        IfUpRight(IfUpLeft(IfUp(c, k), k), k), k), k), k), k), k), k)

\* ------------------------------------------------------------ state

\* The process has been started with the parsed command line in args;
\* no Car exists yet.
Init ==
    /\ pc = "main"
    /\ run = FALSE
    /\ err = "none"
    /\ ticks = 0
    /\ keys = {}
    /\ moving = FALSE
    /\ \E s \in InitSpeeds, h \in InitHeadings, d \in InitSteers,
          t \in InitDts, g \in InitGeometry :
          args = [vehicle_speed |-> s, lf |-> g[1], lb |-> g[2], x0 |-> 0,
                  y0 |-> 0, psi0 |-> h, df0 |-> d, dt |-> t]
    /\ vel = 0 /\ vel_k_1 = 0 /\ lf = 0 /\ lb = 0
    /\ x_k = 0 /\ x_k_1 = 0 /\ y_k = 0 /\ y_k_1 = 0
    /\ psi = 0 /\ psi_k_1 = 0 /\ delta_k = 0 /\ delta_k_1 = 0
    /\ delta_t = 0 /\ beta_k_1 = 0 /\ x_pos = 0 /\ y_pos = 0

\* main up to the loop: fps = 1 / dt divides by zero for dt = 0.
MainRaises ==
    /\ pc = "main"
    /\ args.dt = 0
    /\ err' = "ZeroDivisionError"
    /\ pc' = "raised"
    /\ UNCHANGED <<run, ticks, args, keys, moving, carvars>>

\* main up to the loop: run = True, fps = 1 / dt, car = Car(...).
MainConstructs ==
    /\ pc = "main"
    /\ args.dt # 0
    /\ run' = TRUE
    /\ vel' = args.vehicle_speed /\ vel_k_1' = 0
    /\ lf' = args.lf /\ lb' = args.lb
    /\ x_k' = args.x0 /\ x_k_1' = args.x0
    /\ y_k' = args.y0 /\ y_k_1' = args.y0
    /\ psi' = args.psi0 /\ psi_k_1' = args.psi0
    /\ delta_k' = args.df0 /\ delta_k_1' = args.df0
    /\ delta_t' = args.dt
    /\ x_pos' = 0 /\ y_pos' = 0 /\ beta_k_1' = 0
    /\ pc' = "clock_tick"
    /\ UNCHANGED <<err, ticks, args, keys, moving>>

\* while run: clock.tick(fps)
ClockTick ==
    /\ pc = "clock_tick"
    /\ run
    /\ ticks < MaxTicks
    /\ ticks' = ticks + 1
    /\ pc' = "car_draw"
    /\ UNCHANGED <<run, err, args, keys, moving, carvars>>

\* draw: WINDOW.fill, car.draw(window), car.print_parameters(window).
CarDraw ==
    /\ pc = "car_draw"
    /\ x_pos' = PosX(x_k)
    /\ y_pos' = PosY(y_k)
    /\ pc' = "apply_equations"
    /\ UNCHANGED <<run, err, ticks, args, keys, moving, vel, vel_k_1, lf, lb, x_k,
                   x_k_1, y_k, y_k_1, psi, psi_k_1, delta_k, delta_k_1,
                   delta_t, beta_k_1>>

\* draw: car.print_position(window), that is Car.apply_equations, then
\* pygame.display.update().  The division by lf + lb raises when it is 0,
\* after x_k and y_k have been assigned.
ApplyEquations ==
    /\ pc = "apply_equations"
    /\ LET beta == Atan2Q(lb * TanQ(delta_k), lf + lb)
       IN /\ delta_k_1' = delta_k
          /\ x_k_1' = x_k
          /\ y_k_1' = y_k
          /\ psi_k_1' = psi
          /\ beta_k_1' = beta
          /\ x_k' = x_k + Dist(vel_k_1, delta_t, CosQ(Fl(psi + beta)))
          /\ y_k' = y_k + Dist(vel_k_1, delta_t, SinQ(Fl(psi + beta)))
          /\ IF lf + lb = 0
             THEN /\ psi' = psi
                  /\ err' = "ZeroDivisionError"
                  /\ pc' = "raised"
             ELSE /\ psi' = PyMod(Fl(psi + Turn(vel_k_1, delta_t, beta,
                                                delta_k, lf + lb)), TwoPi)
                  /\ err' = err
                  /\ pc' = "get_pressed"
    /\ UNCHANGED <<run, ticks, args, keys, moving, vel, vel_k_1, lf, lb, delta_k,
                   delta_t, x_pos, y_pos>>

\* keys = pygame.key.get_pressed()
GetPressed ==
    /\ pc = "get_pressed"
    /\ keys' \in SUBSET KeyNames
    /\ pc' = "handle_movement"
    /\ UNCHANGED <<run, err, ticks, args, moving, carvars>>

\* handle_movement(car, keys)
DoHandleMovement ==
    /\ pc = "handle_movement"
    /\ LET h == HandleMovement([vel |-> vel, vel_k_1 |-> vel_k_1,
                                delta_k |-> delta_k], keys)
       IN /\ vel' = h.vel
          /\ vel_k_1' = h.vel_k_1
          /\ delta_k' = h.delta_k
    /\ moving' = Moving(keys)
    /\ pc' = "events"
    /\ UNCHANGED <<run, err, ticks, args, keys, lf, lb, x_k, x_k_1, y_k,
                   y_k_1, psi, psi_k_1, delta_k_1, delta_t, beta_k_1,
                   x_pos, y_pos>>

\* for event in pygame.event.get(): no QUIT event is queued.
EventsNone ==
    /\ pc = "events"
    /\ keys' = {}
    /\ pc' = "clock_tick"
    /\ UNCHANGED <<run, err, ticks, args, moving, carvars>>

\* for event in pygame.event.get(): a QUIT event; then pygame.quit().
EventsQuit ==
    /\ pc = "events"
    /\ run' = FALSE
    /\ keys' = {}
    /\ pc' = "quit"
    /\ UNCHANGED <<err, ticks, args, moving, carvars>>

Next ==
    \/ MainRaises
    \/ MainConstructs
    \/ ClockTick
    \/ CarDraw
    \/ ApplyEquations
    \/ GetPressed
    \/ DoHandleMovement
    \/ EventsNone
    \/ EventsQuit

Spec == Init /\ [][Next]_vars

\* ------------------------------------------------------- properties

\* At least one call of apply_equations has run to its end.
Updated ==
    \/ ticks >= 2
    \/ ticks = 1 /\ pc \in {"get_pressed", "handle_movement", "events",
                            "clock_tick", "quit"}

BackwardHeld(k) == Down(k) /\ ~Up(k) /\ ~(Left(k) /\ Right(k))

\* C1: on every tick with backward held and forward not (at most one of
\* left/right held), whatever speed keys are held, handle_movement leaves
\* the effective speed vel_k_1 equal to the negation of the stored speed
\* (as it was before or as it is after the tick's speed keys), so it is
\* never positive.
C1_BackwardNegatesSpeed ==
    [][(pc = "handle_movement" /\ BackwardHeld(keys))
         => (vel_k_1' \in {-vel, -vel'} /\ vel_k_1' <= 0)]_vars

\* C2: from a stored speed within the limits, the stored speed stays within
\* [LOWER_SPEED_LIMIT, UPPER_SPEED_LIMIT] whatever keys are held.
C2_SpeedWithinLimits ==
    pc # "main" => (LOWER_SPEED_LIMIT <= vel /\ vel <= UPPER_SPEED_LIMIT)

\* C3: at the end of a loop iteration, the pose update of this iteration
\* has consumed the command mapped from this iteration's key sample (its
\* steering angle and its effective speed), and the renderer has drawn the
\* pose that update produced.
C3_SampleUpdateRender ==
    pc = "events" =>
        /\ delta_k_1 = delta_k
        /\ x_k = x_k_1 + Dist(vel_k_1, delta_t, CosQ(Fl(psi_k_1 + beta_k_1)))
        /\ y_k = y_k_1 + Dist(vel_k_1, delta_t, SinQ(Fl(psi_k_1 + beta_k_1)))
        /\ x_pos = PosX(x_k)
        /\ y_pos = PosY(y_k)

\* C4: the effective speed and steering angle that handle_movement leaves
\* depend only on the held keys and the stored speed: they are those of the
\* run that reaches the same stored speed and the same held keys right
\* after a tick with only K_UP held (vel_k_1 = vel, delta_k = 0).
C4_CommandFromKeysAndSpeed ==
    [][pc = "handle_movement"
         => LET ref == HandleMovement([vel |-> vel, vel_k_1 |-> vel,
                                       delta_k |-> 0], keys)
            IN vel_k_1' = ref.vel_k_1 /\ delta_k' = ref.delta_k]_vars

\* C5: a pose update that follows a key sample with no directional key
\* held leaves x, y and the heading unchanged.
C5_IdleKeepsPose ==
    [][(pc = "apply_equations" /\ ticks >= 2 /\ ~moving /\ lf + lb # 0)
         => (x_k' = x_k /\ y_k' = y_k /\ psi' = psi)]_vars

\* C6: after every pose update the heading satisfies 0 <= psi < 2*pi.
C6_HeadingNormalized ==
    Updated => (0 <= psi /\ psi < TwoPi)

\* C7: no exception is raised once the loop has started a tick: degenerate
\* parameters are rejected before.
C7_TickNeverRaises ==
    ticks >= 1 => err = "none"

C10_SpeedFrame ==
    [][pc # "main" =>
         /\ pc # "handle_movement" => vel' = vel
         /\ pc = "handle_movement" =>
              \E a \in {0, 1}, b \in {0, 1} :
                 /\ vel' = vel + a * SPEED_STEP - b * SPEED_STEP
                 /\ a = 1 => ("K_f" \in keys /\ Moving(keys))
                 /\ b = 1 => ("K_s" \in keys /\ Moving(keys))]_vars

C10_Witness ==
    /\ pc = "events"
    /\ keys = {"K_DOWN", "K_f"}
    /\ vel = args.vehicle_speed + SPEED_STEP
    /\ vel_k_1 = args.vehicle_speed

====
